---- MODULE Spec2Model ----
(***************************************************************************)
(* The context store registry of red/runtime/nodes/context/index.js:       *)
(* the module-level state (settings, contexts, stores, hasConfiguredStore) *)
(* and the operations init, load, get, delete, clean, close that act on    *)
(* it, with the get/set/keys facade of a context handle.                   *)
(*                                                                         *)
(* A configuration map (settings.contextStorage) is a sequence of entries  *)
(* in the order `for (var pluginName in plugins)` visits them.  Store      *)
(* names are ordinary non-empty, non-numeric identifiers, for which that   *)
(* order is the insertion order of the map.                                *)
(*                                                                         *)
(* A backend instance is identified by <<gen, k>>: gen flips at every      *)
(* init, k counts the instances made since that init, so that an instance  *)
(* made by `new memory()` or by a plugin factory is never equal to one     *)
(* that is still referenced.  backends records, per instance, how often    *)
(* open() and close() were invoked on it.                                  *)
(***************************************************************************)
EXTENDS Integers, Sequences, FiniteSets, TLC

\* Longest configuration map explored.
MaxEntries == 3
\* Most load() calls explored between two init() calls.
MaxLoads == 2

Undefined == "undefined"

StoreNames == {"_", "default", "a", "b"}

\* What the `module` property of an entry can be:
\*   absent   - the entry has no `module` property
\*   unknown  - a string that require("./"+module) cannot load
\*   builtin  - a string naming a module beside index.js (e.g. "memory")
\*   factory  - an already-required module function
\*   throws   - a module function that throws when called
ModuleKinds == {"absent", "unknown", "builtin", "factory", "throws"}

\* The entries of a configuration map.  A string value is explored under the
\* key "default" (the alias declaration); the value under the reserved key "_"
\* is never read.
Entries ==
    [name : {"default"}, type : {"string"}, arg : {"a", "b"}]
      \cup [name : {"default", "a", "b"}, type : {"object"}, arg : ModuleKinds]
      \cup [name : {"_"}, type : {"object"}, arg : {"factory"}]

DistinctNames(s) == \A i, j \in DOMAIN s : i # j => s[i].name # s[j].name

\* A configuration map of at most MaxEntries entries.
Configs ==
    {s \in UNION {[1..k -> Entries] : k \in 0..MaxEntries} : DistinctNames(s)}

\* The settings objects given to init: contextStorage is absent
\* (hasContextStorage false) or a configuration map; functionGlobalContext is
\* absent (hasSeed false) or the seed object the caller holds.
AllSettings ==
    [defined : {TRUE}, hasSeed : BOOLEAN, hasContextStorage : {FALSE},
     contextStorage : {<<>>}]
      \cup [defined : {TRUE}, hasSeed : BOOLEAN, hasContextStorage : {TRUE},
            contextStorage : Configs]

\* Settings of every storage configuration, without functionGlobalContext.
SettingsSet == {s \in AllSettings : ~s.hasSeed}

\* `var settings;` before the first init
NoSettings ==
    [defined |-> FALSE, hasSeed |-> FALSE, hasContextStorage |-> FALSE,
     contextStorage |-> <<>>]

VARIABLES
    settings,            \* var settings (NoSettings before the first init)
    contexts,            \* var contexts: scope id -> context handle
    stores,              \* var stores: store name -> backend instance
    hasConfiguredStore,  \* var hasConfiguredStore
    backends,            \* instance -> [kind, opens, closes]: calls made on it
    promises,            \* the `promises` array of the latest load(): name -> [inst, st]
    loadPromise,         \* the promise the latest load() returned
    loadError,           \* why the latest load() rejected
    created,             \* the instances the latest load() constructed
    loads,               \* load() calls since the last init()
    closeCalled,         \* close() was called since the last init()
    gen,                 \* generation of backend instances, flipped by init()
    seedObj,             \* own property names of the caller's seed object, in order
    lastHandle,          \* the handle the latest get() returned
    lastCall,            \* the latest delete, clean or facade call and the store it called
    result,              \* how the latest delete, clean or facade call ended
    closePromises,       \* the `promises` array of the latest close()
    closePromise,        \* the promise the latest close() returned
    cleanPromises,       \* the `promises` array of the latest clean()
    cleanPromise         \* the promise the latest clean() returned

\* The registry, the context cache, the outcome of
\* the latest call, and the promises of close() and clean().
regVars == <<settings, stores, hasConfiguredStore, backends, promises,
             loadPromise, loadError, created, loads, closeCalled, gen>>
ctxVars == <<contexts, seedObj, lastHandle>>
callVars == <<lastCall, result>>
endVars == <<closePromises, closePromise, cleanPromises, cleanPromise>>

vars == <<regVars, ctxVars, callVars, endVars>>

----------------------------------------------------------------------------
\* Maps (JavaScript objects used as dictionaries)

EmptyMap == [x \in {} |-> x]

Put(m, k, v) == [x \in (DOMAIN m) \cup {k} |-> IF x = k THEN v ELSE m[x]]

Range(m) == {m[x] : x \in DOMAIN m}

\* plugins.hasOwnProperty(name)
hasOwnProperty(plugins, name) == \E i \in DOMAIN plugins : plugins[i].name = name

----------------------------------------------------------------------------
\* Backend instances

\* new memory() / plugin(config): an instance no one refers to yet.
NewInstance(tbl, g) ==
    <<g, 1 + Cardinality({i \in DOMAIN tbl : i[1] = g})>>

\* What reading a missing property of stores gives.
NoInstance == <<-1, -1>>

NewBackend(kind) == [kind |-> kind, opens |-> 0, closes |-> 0]

----------------------------------------------------------------------------
\* load(): the loop over the configuration map (lines 51-99).  acc carries the
\* locals and the part of the module state the loop writes:
\*   stores, backends, created, defaultIsAlias, defaultName, err

Get(m, k) == IF k \in DOMAIN m THEN m[k] ELSE NoInstance

\* plugins[name]
Entry(plugins, name) ==
    plugins[CHOOSE i \in DOMAIN plugins : plugins[i].name = name]

\* The same without the `!defaultName` test: the last declared name wins.
pickDefaultName_LastWins(hasDefault, defaultName, pluginName) ==
    IF ~hasDefault THEN pluginName ELSE defaultName

\* if (!hasDefault && !defaultName) { defaultName = pluginName; }
pickDefaultName(hasDefault, defaultName, pluginName) ==
    IF ~hasDefault /\ defaultName = Undefined THEN pluginName ELSE defaultName

\* Lines 70-97: resolve the entry's module and call it to make the instance.
instantiate(e, g, acc) ==
    IF e.type = "object" /\ e.arg # "absent"
    THEN IF e.arg = "unknown"
         THEN [acc EXCEPT !.err = "error-module-not-loaded"]
         ELSE IF e.arg = "throws"
         THEN [acc EXCEPT !.err = "error-loading-module"]
         ELSE LET inst == NewInstance(acc.backends, g)
                  kind == IF e.arg = "builtin" THEN "memory" ELSE "plugin"
              IN  [acc EXCEPT !.stores = Put(@, e.name, inst),
                              !.backends = Put(@, inst, NewBackend(kind)),
                              !.created = @ \cup {inst}]
    ELSE [acc EXCEPT !.err = "error-module-not-defined"]

\* One pass of the loop body (lines 52-98) for the entry e.
loadPlugin(plugins, hasDefault, e, g, acc) ==
    IF e.name = "_"
    THEN acc
    ELSE IF e.name = "default" /\ e.type = "string"
    THEN IF ~hasOwnProperty(plugins, e.arg)
         THEN [acc EXCEPT !.err = "error-invalid-default-module"]
         ELSE [acc EXCEPT !.defaultIsAlias = TRUE]
    ELSE instantiate(e, g,
            [acc EXCEPT !.defaultName = pickDefaultName(hasDefault, @, e.name)])

\* The loop; a `return reject(...)` leaves it at once.
RECURSIVE loadPlugins(_, _, _, _, _)
loadPlugins(plugins, hasDefault, i, g, acc) ==
    IF i > Len(plugins) \/ acc.err # "none"
    THEN acc
    ELSE loadPlugins(plugins, hasDefault, i + 1, g,
                     loadPlugin(plugins, hasDefault, plugins[i], g, acc))

----------------------------------------------------------------------------
\* load(): opening the stores and resolving the default (lines 101-135)

\* stores[plugin].open() for every own property of stores: the calls made ...
openAllCalls(st, tbl) ==
    [i \in DOMAIN tbl |->
        [tbl[i] EXCEPT !.opens = @ + Cardinality({n \in DOMAIN st : st[n] = i})]]

\* ... and the promises pushed, one per store name.
openAllPromises(st) == [n \in DOMAIN st |-> [inst |-> st[n], st |-> "pending"]]

\* The same without line 116: a configured "default" never replaces "_".
resolveDefault_KeepsPlaceholder(plugins, hasDefault, acc) ==
    IF hasDefault
    THEN IF acc.defaultIsAlias
         THEN Put(acc.stores, "default",
                  Get(acc.stores, Entry(plugins, "default").arg))
         ELSE acc.stores
    ELSE IF acc.defaultName # Undefined
    THEN LET s1 == Put(acc.stores, "default", Get(acc.stores, acc.defaultName))
         IN  Put(s1, "_", Get(s1, "default"))
    ELSE acc.stores

\* Lines 108-121: point "default" and "_" at the default store.
resolveDefault(plugins, hasDefault, acc) ==
    IF hasDefault
    THEN LET s1 == IF acc.defaultIsAlias
                   THEN Put(acc.stores, "default",
                            Get(acc.stores, Entry(plugins, "default").arg))
                   ELSE acc.stores
         IN  Put(s1, "_", Get(s1, "default"))
    ELSE IF acc.defaultName # Undefined
    THEN LET s1 == Put(acc.stores, "default", Get(acc.stores, acc.defaultName))
         IN  Put(s1, "_", Get(s1, "default"))
    ELSE acc.stores

\* Promise.race(promises) in its place: settled by the first open to settle.
PromiseRace(ps) ==
    IF \E n \in DOMAIN ps : ps[n].st = "rejected" THEN "rejected"
    ELSE IF \E n \in DOMAIN ps : ps[n].st = "resolved" THEN "resolved"
    ELSE "pending"

\* Promise.all(promises)
PromiseAll(ps) ==
    IF \E n \in DOMAIN ps : ps[n].st = "rejected" THEN "rejected"
    ELSE IF \A n \in DOMAIN ps : ps[n].st = "resolved" THEN "resolved"
    ELSE "pending"

\* Lines 125-135: with nothing opened, fall back to a memory store; otherwise
\* record that storage was configured.  ps, tbl, st, cr: the promises, the
\* instance table, stores and the instances constructed so far.
finishLoad(ps, tbl, st, cr, hcs, g) ==
    IF DOMAIN ps = {}
    THEN LET inst == NewInstance(tbl, g)
         IN  [stores |-> Put(Put(st, "_", inst), "default", inst),
              backends |-> Put(tbl, inst, [NewBackend("memory") EXCEPT !.opens = 1]),
              created |-> cr \cup {inst},
              promises |-> Put(EmptyMap, "_", [inst |-> inst, st |-> "pending"]),
              hasConfiguredStore |-> hcs,
              err |-> "none"]
    ELSE [stores |-> st, backends |-> tbl, created |-> cr, promises |-> ps,
          hasConfiguredStore |-> TRUE, err |-> "none"]

\* The body of the promise load() returns (lines 44-136), run on the settings
\* s, stores st, instance table tbl and hasConfiguredStore hcs.
loadBody(s, st, tbl, hcs, g) ==
    LET plugins == s.contextStorage
        acc0 == [stores |-> st, backends |-> tbl, created |-> {},
                 defaultIsAlias |-> FALSE, defaultName |-> Undefined,
                 err |-> "none"]
    IN  IF s.hasContextStorage
        THEN LET hasDefault == hasOwnProperty(plugins, "default")
                 acc == loadPlugins(plugins, hasDefault, 1, g, acc0)
             IN  IF acc.err # "none"
                 THEN [stores |-> acc.stores, backends |-> acc.backends,
                       created |-> acc.created, promises |-> EmptyMap,
                       hasConfiguredStore |-> hcs, err |-> acc.err]
                 ELSE finishLoad(openAllPromises(acc.stores),
                                 openAllCalls(acc.stores, acc.backends),
                                 resolveDefault(plugins, hasDefault, acc),
                                 acc.created, hcs, g)
        ELSE finishLoad(EmptyMap, tbl, st, {}, hcs, g)

----------------------------------------------------------------------------
\* Context handles.  A handle is [id, seeded, seedKeys, flow, global]: id tells
\* one object returned by createContext from another, flow and global are the
\* ids of the handles it links to (0: the property is undefined), seedKeys is
\* the Object.keys(seed) its functions closed over.

\* The identity of the seed object the caller holds: createContext("global",
\* seed) returns that very object (var obj = seed || {}).
SeedObject == 1

\* The properties functionGlobalContext is configured with, and their values.
StaticSeedKeys == <<"k1">>

\* obj.get = ..., obj.set = ..., obj.keys = ... (lines 172, 210, 226): the own
\* property names of obj afterwards; a name it already has keeps its place.
RECURSIVE addProperties(_, _)
addProperties(own, names) ==
    IF names = <<>> THEN own
    ELSE addProperties(
            IF \E i \in DOMAIN own : own[i] = Head(names)
            THEN own ELSE Append(own, Head(names)),
            Tail(names))

withFacade(own) == addProperties(own, <<"get", "set", "keys">>)

LiveHandles(ctxs) ==
    UNION {{ctxs[c].id, ctxs[c].flow, ctxs[c].global} : c \in DOMAIN ctxs}

\* The identity of an object createContext returns: one no handle has or links to.
FreshHandle(ctxs) ==
    CHOOSE n \in (SeedObject + 1)..(SeedObject + Cardinality(LiveHandles(ctxs)) + 1) :
        /\ n \notin LiveHandles(ctxs)
        /\ \A m \in (SeedObject + 1)..(n - 1) : m \in LiveHandles(ctxs)

\* createContext(id, seed): the handle, not yet linked
createContext(hid, seedKeys, seeded) ==
    [id |-> hid, seeded |-> seeded, seedKeys |-> seedKeys, flow |-> 0, global |-> 0]

\* contexts['global']
globalHandle(ctxs) ==
    IF <<"global">> \in DOMAIN ctxs THEN ctxs[<<"global">>].id ELSE 0

\* A scope id is the sequence of its ":"-separated parts; an absent flowId is <<>>.
contextId(localId, flowId) == IF flowId # <<>> THEN localId \o flowId ELSE localId

\* getContext(id) that never looks in the cache
getContextLocal_AlwaysNew(ctxs, id) ==
    LET h == [createContext(FreshHandle(ctxs), <<>>, FALSE)
                 EXCEPT !.global = globalHandle(ctxs)]
    IN  [contexts |-> Put(ctxs, id, h), ret |-> h.id]

\* getContext(id) without a flow id: [contexts, ret], the cache afterwards and
\* the handle returned.
getContextLocal(ctxs, id) ==
    IF id \in DOMAIN ctxs
    THEN [contexts |-> ctxs, ret |-> ctxs[id].id]
    ELSE LET h == [createContext(FreshHandle(ctxs), <<>>, FALSE)
                      EXCEPT !.global = globalHandle(ctxs)]
         IN  [contexts |-> Put(ctxs, id, h), ret |-> h.id]

\* getContext(localId, flowId) (lines 256-271)
getContextResult(ctxs, localId, flowId) ==
    IF flowId = <<>> \/ contextId(localId, flowId) \in DOMAIN ctxs
    THEN getContextLocal(ctxs, contextId(localId, flowId))
    ELSE LET f == getContextLocal(ctxs, flowId)
             h == [createContext(FreshHandle(f.contexts), <<>>, FALSE)
                      EXCEPT !.flow = f.ret, !.global = globalHandle(f.contexts)]
         IN  [contexts |-> Put(f.contexts, contextId(localId, flowId), h),
              ret |-> h.id]

----------------------------------------------------------------------------
\* The state after the module is loaded (lines 21-32)

\* The latest call of delete, clean or a facade function: its arguments, the
\* store it called (inst) and, for get and keys, what that store reported.
NoCall ==
    [op |-> "none", scope |-> <<>>, key |-> Undefined, storage |-> Undefined,
     callback |-> Undefined, nodes |-> {}, inst |-> NoInstance,
     value |-> Undefined, keys |-> <<>>]

NoResult == [kind |-> "none", val |-> Undefined, keys |-> <<>>]

Init ==
    /\ settings = NoSettings
    /\ contexts = EmptyMap
    /\ stores = EmptyMap
    /\ hasConfiguredStore = FALSE
    /\ backends = EmptyMap
    /\ promises = EmptyMap
    /\ loadPromise = "none"
    /\ loadError = "none"
    /\ created = {}
    /\ loads = 0
    /\ closeCalled = FALSE
    /\ gen = 0
    /\ seedObj = StaticSeedKeys
    /\ lastHandle = 0
    /\ lastCall = NoCall
    /\ result = NoResult
    /\ closePromises = EmptyMap
    /\ closePromise = "none"
    /\ cleanPromises = EmptyMap
    /\ cleanPromise = "none"

\* The global handle init makes: the seed object itself, closed over the
\* property names it has now, when functionGlobalContext is given; a new
\* object for `{}` otherwise.
globalContext(s, ctxs, own) ==
    IF s.hasSeed
    THEN createContext(SeedObject, own, TRUE)
    ELSE createContext(FreshHandle(ctxs), <<>>, TRUE)

\* init(_settings) (lines 34-40).  What calls made before it returned or
\* promised is no longer followed.
init(_settings) ==
    /\ settings' = _settings
    /\ gen' = 1 - gen
    /\ stores' = Put(EmptyMap, "_", NewInstance(EmptyMap, gen'))
    /\ backends' = Put(EmptyMap, NewInstance(EmptyMap, gen'), NewBackend("memory"))
    /\ contexts' = Put(contexts, <<"global">>,
                       globalContext(_settings, contexts, seedObj))
    /\ seedObj' = IF _settings.hasSeed THEN withFacade(seedObj) ELSE seedObj
    /\ closePromises' = EmptyMap
    /\ closePromise' = "none"
    /\ cleanPromises' = EmptyMap
    /\ cleanPromise' = "none"
    /\ lastHandle' = 0
    /\ lastCall' = NoCall
    /\ result' = NoResult
    /\ promises' = EmptyMap
    /\ loadPromise' = "none"
    /\ loadError' = "none"
    /\ created' = {}
    /\ loads' = 0
    /\ closeCalled' = FALSE
    /\ UNCHANGED hasConfiguredStore

\* load() (lines 42-138): the promise's body runs at once; the promise stays
\* pending on Promise.all(promises) unless the body rejected it.
load ==
    /\ loads < MaxLoads
    /\ ~closeCalled
    /\ loads' = loads + 1
    /\ IF ~settings.defined
       THEN \* settings.contextStorage throws a TypeError, which rejects
            /\ loadPromise' = "rejected"
            /\ loadError' = "TypeError"
            /\ promises' = EmptyMap
            /\ created' = {}
            /\ UNCHANGED <<stores, backends, hasConfiguredStore>>
       ELSE LET r == loadBody(settings, stores, backends, hasConfiguredStore, gen)
            IN  /\ stores' = r.stores
                /\ backends' = r.backends
                /\ created' = r.created
                /\ promises' = r.promises
                /\ hasConfiguredStore' = r.hasConfiguredStore
                /\ loadError' = r.err
                /\ loadPromise' = IF r.err = "none" THEN "pending" ELSE "rejected"
    /\ UNCHANGED <<settings, closeCalled, gen, ctxVars, callVars, endVars>>

\* The open() of the store opened under name n completes.
openResolved(n) ==
    /\ n \in DOMAIN promises
    /\ promises[n].st = "pending"
    /\ promises' = [promises EXCEPT ![n].st = "resolved"]
    /\ UNCHANGED <<settings, stores, hasConfiguredStore, backends, loadPromise,
                   loadError, created, loads, closeCalled, gen>>
    /\ UNCHANGED <<ctxVars, callVars, endVars>>

\* The open() of the store opened under name n fails.
openRejected(n) ==
    /\ n \in DOMAIN promises
    /\ promises[n].st = "pending"
    /\ promises' = [promises EXCEPT ![n].st = "rejected"]
    /\ UNCHANGED <<settings, stores, hasConfiguredStore, backends, loadPromise,
                   loadError, created, loads, closeCalled, gen>>
    /\ UNCHANGED <<ctxVars, callVars, endVars>>

\* resolve(Promise.all(promises)) (line 136): load's promise follows the join.
loadSettled ==
    /\ loadPromise = "pending"
    /\ PromiseAll(promises) # "pending"
    /\ loadPromise' = PromiseAll(promises)
    /\ loadError' = IF PromiseAll(promises) = "rejected" THEN "open-failed" ELSE "none"
    /\ UNCHANGED <<settings, stores, hasConfiguredStore, backends, promises,
                   created, loads, closeCalled, gen>>
    /\ UNCHANGED <<ctxVars, callVars, endVars>>

\* stores[plugin].close() for every own property of stores
closeAllCalls(st, tbl) ==
    [i \in DOMAIN tbl |->
        [tbl[i] EXCEPT !.closes = @ + Cardinality({n \in DOMAIN st : st[n] = i})]]

\* ... and the promises pushed, but for the name "_"
closeAllPromises_ConfiguredOnly(st) ==
    [n \in (DOMAIN st) \ {"_"} |-> [inst |-> st[n], st |-> "pending"]]

\* ... and the promises pushed, one per store name.
closeAllPromises(st) == [n \in DOMAIN st |-> [inst |-> st[n], st |-> "pending"]]

\* close() (lines 305-313), called once per init
close ==
    /\ ~closeCalled
    /\ closeCalled' = TRUE
    /\ backends' = closeAllCalls(stores, backends)
    /\ closePromises' = closeAllPromises(stores)
    /\ closePromise' = "pending"
    /\ UNCHANGED <<settings, stores, hasConfiguredStore, promises, loadPromise,
                   loadError, created, loads, gen>>
    /\ UNCHANGED <<ctxVars, callVars, cleanPromises, cleanPromise>>

\* The close() of the store closed under name n completes.
closeResolved(n) ==
    /\ n \in DOMAIN closePromises
    /\ closePromises[n].st = "pending"
    /\ closePromises' = [closePromises EXCEPT ![n].st = "resolved"]
    /\ UNCHANGED <<regVars, ctxVars, callVars, closePromise, cleanPromises, cleanPromise>>

\* The close() of the store closed under name n fails.
closeRejected(n) ==
    /\ n \in DOMAIN closePromises
    /\ closePromises[n].st = "pending"
    /\ closePromises' = [closePromises EXCEPT ![n].st = "rejected"]
    /\ UNCHANGED <<regVars, ctxVars, callVars, closePromise, cleanPromises, cleanPromise>>

\* return Promise.all(promises) (line 312): close's promise follows the join.
closeSettled ==
    /\ closePromise = "pending"
    /\ PromiseAll(closePromises) # "pending"
    /\ closePromise' = PromiseAll(closePromises)
    /\ UNCHANGED <<regVars, ctxVars, callVars, closePromises, cleanPromises, cleanPromise>>

\* get(localId, flowId) (lines 256-271)
getContext(localId, flowId) ==
    /\ contexts' = getContextResult(contexts, localId, flowId).contexts
    /\ lastHandle' = getContextResult(contexts, localId, flowId).ret
    /\ lastCall' = NoCall
    /\ result' = NoResult
    /\ UNCHANGED <<regVars, seedObj, endVars>>

\* if(!hasConfiguredStore) (line 274)
deleteApplies_Always(hcs) == TRUE

deleteApplies(hcs) == ~hcs

\* delete contexts[contextId] (line 280)
Remove(m, k) == [x \in (DOMAIN m) \ {k} |-> m[x]]

\* delete(id, flowId) (lines 273-285).  Without stores["_"] the call of its
\* delete throws, after the handle is gone from the cache.
deleteContext(id, flowId) ==
    /\ IF deleteApplies(hasConfiguredStore)
       THEN /\ contexts' = Remove(contexts, contextId(id, flowId))
            /\ IF "_" \in DOMAIN stores
               THEN /\ lastCall' = [NoCall EXCEPT !.op = "delete",
                                                  !.inst = stores["_"],
                                                  !.scope = contextId(id, flowId)]
                    /\ result' = [NoResult EXCEPT !.kind = "promise"]
               ELSE /\ lastCall' = [NoCall EXCEPT !.op = "delete",
                                                  !.scope = contextId(id, flowId)]
                    /\ result' = [NoResult EXCEPT !.kind = "throw", !.val = "TypeError"]
       ELSE /\ lastCall' = [NoCall EXCEPT !.op = "delete",
                                          !.scope = contextId(id, flowId)]
            /\ result' = [NoResult EXCEPT !.kind = "resolved"]
            /\ UNCHANGED contexts
    /\ lastHandle' = 0
    /\ UNCHANGED <<regVars, seedObj, endVars>>

\* The handle cached under id is evicted by clean unless its owner is active:
\* id.split(":")[0] tested against the whole id in place of idParts[0].
cleanKeeps_WholeId(id, allNodes) ==
    id = <<"global">> \/ \E n \in allNodes : id = <<n>>

\* Lines 294-301: what clean keeps in contexts
cleanKeeps(id, allNodes) == id = <<"global">> \/ Head(id) \in allNodes

\* The promises clean pushes, one per store name (lines 289-293)
cleanAllPromises(st) == [n \in DOMAIN st |-> [inst |-> st[n], st |-> "pending"]]

\* clean(flowConfig) (lines 287-303); allNodes is the set of keys of
\* flowConfig.allNodes.
clean(allNodes) ==
    /\ cleanPromises' = cleanAllPromises(stores)
    /\ cleanPromise' = "pending"
    /\ lastCall' = [NoCall EXCEPT !.op = "clean", !.nodes = allNodes]
    /\ contexts' = [id \in {i \in DOMAIN contexts : cleanKeeps(i, allNodes)} |->
                        contexts[id]]
    /\ lastHandle' = 0
    /\ result' = [NoResult EXCEPT !.kind = "promise"]
    /\ UNCHANGED <<regVars, seedObj, closePromises, closePromise>>

\* The clean() of the store cleaned under name n completes.
cleanResolved(n) ==
    /\ n \in DOMAIN cleanPromises
    /\ cleanPromises[n].st = "pending"
    /\ cleanPromises' = [cleanPromises EXCEPT ![n].st = "resolved"]
    /\ UNCHANGED <<regVars, ctxVars, callVars, closePromises, closePromise, cleanPromise>>

\* The clean() of the store cleaned under name n fails.
cleanRejected(n) ==
    /\ n \in DOMAIN cleanPromises
    /\ cleanPromises[n].st = "pending"
    /\ cleanPromises' = [cleanPromises EXCEPT ![n].st = "rejected"]
    /\ UNCHANGED <<regVars, ctxVars, callVars, closePromises, closePromise, cleanPromise>>

\* return Promise.all(promises) (line 302): clean's promise follows the join.
cleanSettled ==
    /\ cleanPromise = "pending"
    /\ PromiseAll(cleanPromises) # "pending"
    /\ cleanPromise' = PromiseAll(cleanPromises)
    /\ UNCHANGED <<regVars, ctxVars, callVars, closePromises, closePromise, cleanPromises>>

----------------------------------------------------------------------------
\* The facade of a handle: get, set and keys.  An argument is Undefined when
\* it is not given, Function when it is a function, any other string
\* otherwise; the stores are what the plugins make of them, so what a store
\* reports for a get or a keys call is any value, or any list of keys.

Function == "function"

\* typeof x === 'function'
IsFunction(x) == x = Function

\* The values a store reports, and the keys it lists.
Values == {Undefined, "v1"}

KeyLists == {<<>>, <<"k2", "k1">>}

\* getContextStorage(storage) (lines 148-161): the instance, or the error thrown
getContextStorage(storage) ==
    IF storage \in DOMAIN stores
    THEN [err |-> "none", inst |-> stores[storage]]
    ELSE IF "default" \in DOMAIN stores
    THEN [err |-> "none", inst |-> stores["default"]]
    ELSE [err |-> "ContextError", inst |-> NoInstance]

\* The callback test of get and keys (lines 181, 235) ...
callbackMisuseStrict(callback) == ~IsFunction(callback)

\* ... and of set (line 219)
callbackMisuseLax(callback) == callback # Undefined /\ ~IsFunction(callback)

\* Lines 174-185, 212-223, 228-239: the store a facade call goes to and the
\* callback it passes on, or the error it throws.  strict tells the test of
\* get and keys from that of set.
facadeStore(storage, callback, strict) ==
    IF storage = Undefined /\ callback = Undefined
    THEN [err |-> IF "_" \in DOMAIN stores THEN "none" ELSE "TypeError",
          inst |-> Get(stores, "_"), callback |-> Undefined]
    ELSE LET cb == IF IsFunction(storage) THEN storage ELSE callback
             st == IF IsFunction(storage) THEN "default" ELSE storage
         IN  IF (strict /\ callbackMisuseStrict(cb)) \/ (~strict /\ callbackMisuseLax(cb))
             THEN [err |-> "Callback must be a function", inst |-> NoInstance,
                   callback |-> cb]
             ELSE [err |-> getContextStorage(st).err,
                   inst |-> getContextStorage(st).inst, callback |-> cb]

\* seed[key]: the seed is the handle itself, so it has the configured
\* properties, when it is the caller's object, and the facade's functions.
seedValue(h, key) ==
    IF h.id = SeedObject /\ key = "k1" THEN "s1"
    ELSE IF key \in {"get", "set", "keys"} THEN Function
    ELSE Undefined

\* The seed value put before what the store reports
seedMerge_SeedFirst(v, sv) == IF sv # Undefined THEN sv ELSE v

\* Lines 191-195 and 200-204
seedMerge(v, sv) == IF v = Undefined THEN sv ELSE v

\* How a call that reached its store ends: through the callback, or by return.
outcome(callback) == IF callback # Undefined THEN "callback" ELSE "return"

\* obj.get(key, storage, callback) (lines 172-209) of the handle cached under
\* scope, the store reporting v.
get(scope, key, storage, callback, v) ==
    /\ scope \in DOMAIN contexts
    /\ LET f == facadeStore(storage, callback, TRUE)
           h == contexts[scope]
           call == [NoCall EXCEPT !.op = "get", !.scope = scope, !.key = key,
                                  !.storage = storage, !.callback = callback]
       IN  IF f.err # "none"
           THEN /\ lastCall' = call
                /\ result' = [NoResult EXCEPT !.kind = "throw", !.val = f.err]
           ELSE /\ lastCall' = [call EXCEPT !.inst = f.inst, !.value = v]
                /\ result' = [NoResult EXCEPT
                                 !.kind = outcome(f.callback),
                                 !.val = IF h.seeded
                                         THEN seedMerge(v, seedValue(h, key))
                                         ELSE v]
    /\ lastHandle' = 0
    /\ UNCHANGED <<regVars, contexts, seedObj, endVars>>

\* obj.set(key, value, storage, callback) (lines 210-225): nothing is returned.
set(scope, key, value, storage, callback) ==
    /\ scope \in DOMAIN contexts
    /\ LET f == facadeStore(storage, callback, FALSE)
           call == [NoCall EXCEPT !.op = "set", !.scope = scope, !.key = key,
                                  !.storage = storage, !.callback = callback,
                                  !.value = value]
       IN  IF f.err # "none"
           THEN /\ lastCall' = call
                /\ result' = [NoResult EXCEPT !.kind = "throw", !.val = f.err]
           ELSE /\ lastCall' = [call EXCEPT !.inst = f.inst]
                /\ result' = [NoResult EXCEPT !.kind = outcome(f.callback)]
    /\ lastHandle' = 0
    /\ UNCHANGED <<regVars, contexts, seedObj, endVars>>

\* Array.from(new Set(list).keys()): the first occurrence of each element
RECURSIVE Dedupe(_)
Dedupe(list) ==
    IF list = <<>> THEN <<>>
    ELSE LET front == Dedupe(SubSeq(list, 1, Len(list) - 1))
             last == list[Len(list)]
         IN  IF \E i \in DOMAIN front : front[i] = last
             THEN front ELSE Append(front, last)

\* obj.keys(storage, callback) (lines 226-252), the store listing ks.
keys(scope, storage, callback, ks) ==
    /\ scope \in DOMAIN contexts
    /\ LET f == facadeStore(storage, callback, TRUE)
           h == contexts[scope]
           call == [NoCall EXCEPT !.op = "keys", !.scope = scope,
                                  !.storage = storage, !.callback = callback]
       IN  IF f.err # "none"
           THEN /\ lastCall' = call
                /\ result' = [NoResult EXCEPT !.kind = "throw", !.val = f.err]
           ELSE /\ lastCall' = [call EXCEPT !.inst = f.inst, !.keys = ks]
                /\ result' = [NoResult EXCEPT
                                 !.kind = outcome(f.callback),
                                 !.keys = IF h.seeded
                                          THEN Dedupe(h.seedKeys \o ks)
                                          ELSE ks]
    /\ lastHandle' = 0
    /\ UNCHANGED <<regVars, contexts, seedObj, endVars>>

----------------------------------------------------------------------------
\* One start of the runtime: init is called once, with any settings, then
\* load and close in any order, the opens completing or failing in any order.

Next ==
    \/ ~settings.defined /\ \E s \in SettingsSet : init(s)
    \/ load
    \/ \E n \in StoreNames : openResolved(n)
    \/ \E n \in StoreNames : openRejected(n)
    \/ loadSettled
    \/ close

Spec == Init /\ [][Next]_vars

\* Restarts within one process: init is called again at any time, with storage
\* left unconfigured or with one configured store; once initialised, the
\* contexts of one node in one flow are fetched.
RestartSettings ==
    {s \in SettingsSet :
        \/ ~s.hasContextStorage
        \/ s.contextStorage = <<[name |-> "a", type |-> "object", arg |-> "factory"]>>}

LocalIds == {<<"n1">>}

FlowIds == {<<>>, <<"f1">>}

NextRestart ==
    \/ \E s \in RestartSettings : init(s)
    \/ load
    \/ \E n \in StoreNames : openResolved(n)
    \/ \E n \in StoreNames : openRejected(n)
    \/ loadSettled
    \/ close
    \/ settings.defined /\ \E l \in LocalIds, f \in FlowIds : getContext(l, f)

SpecRestart == Init /\ [][NextRestart]_vars

\* The context cache at work: init, with or without global seed values and
\* with or without a configured store, then load and close, and get, delete
\* and clean on the scopes of one node in one flow.
ContextSettings ==
    [defined : {TRUE}, hasSeed : BOOLEAN, hasContextStorage : {FALSE},
     contextStorage : {<<>>}]
      \cup [defined : {TRUE}, hasSeed : {FALSE}, hasContextStorage : {TRUE},
            contextStorage : {<<[name |-> "a", type |-> "object", arg |-> "factory"]>>}]

DeleteCalls ==
    {<<l, <<>>>> : l \in {<<"global">>, <<"n1">>, <<"f1">>}} \cup {<<<<"n1">>, <<"f1">>>>}

NodeIds == {"n1", "f1"}

NextContext ==
    \/ ~settings.defined /\ \E s \in ContextSettings : init(s)
    \/ load
    \/ close
    \/ settings.defined /\ \E l \in LocalIds, f \in FlowIds : getContext(l, f)
    \/ settings.defined /\ \E c \in DeleteCalls : deleteContext(c[1], c[2])
    \/ settings.defined /\ \E ns \in SUBSET NodeIds : clean(ns)

SpecContext == Init /\ [][NextContext]_vars

\* Shutdown: init once, storage unconfigured or with one store, the opens of
\* load completing; clean and close are called, and the clean() and close()
\* of each store complete or fail in any order.
ShutdownSettings == {s \in ContextSettings : ~s.hasSeed}

NextShutdown ==
    \/ ~settings.defined /\ \E s \in ShutdownSettings : init(s)
    \/ load
    \/ \E n \in StoreNames : openResolved(n)
    \/ loadSettled
    \/ settings.defined /\ \E ns \in SUBSET {"n1"} : clean(ns)
    \/ \E n \in StoreNames : cleanResolved(n)
    \/ \E n \in StoreNames : cleanRejected(n)
    \/ cleanSettled
    \/ settings.defined /\ close
    \/ \E n \in StoreNames : closeResolved(n)
    \/ \E n \in StoreNames : closeRejected(n)
    \/ closeSettled

SpecShutdown == Init /\ [][NextShutdown]_vars

\* The facade at work: init at any time, always with the same settings
\* object, whose functionGlobalContext has one property; storage left
\* unconfigured, configured with no store, or with one store.  The opens of
\* load complete, and the handles of "global" and of one node are used, with
\* every kind of storage and callback argument.
FacadeSettings ==
    [defined : {TRUE}, hasSeed : {TRUE}, hasContextStorage : {FALSE},
     contextStorage : {<<>>}]
      \cup [defined : {TRUE}, hasSeed : {TRUE}, hasContextStorage : {TRUE},
            contextStorage :
                {<<>>, <<[name |-> "a", type |-> "object", arg |-> "factory"]>>}]

Scopes == {<<"global">>, <<"n1">>}

Keys == {"k1", "k2"}

\* The storage and callback arguments of a call: neither, a callback in the
\* place of the storage, a known or an unknown name with and without a
\* callback, a callback that is not a function.
FacadeArgs ==
    {<<Undefined, Undefined>>, <<Function, Undefined>>, <<Undefined, Function>>,
     <<"a", Undefined>>, <<"a", Function>>, <<"a", "notAFunction">>,
     <<"nosuch", Function>>, <<Undefined, "notAFunction">>}

NextFacade ==
    \/ \E s \in FacadeSettings : init(s)
    \/ load
    \/ \E n \in StoreNames : openResolved(n)
    \/ loadSettled
    \/ settings.defined /\ \E l \in LocalIds : getContext(l, <<>>)
    \/ settings.defined /\ \E sc \in Scopes, k \in Keys, a \in FacadeArgs, v \in Values :
                              get(sc, k, a[1], a[2], v)
    \/ settings.defined /\ \E sc \in Scopes, a \in FacadeArgs :
                              set(sc, "k2", "v1", a[1], a[2])
    \/ settings.defined /\ \E sc \in Scopes, a \in FacadeArgs, ks \in KeyLists :
                              keys(sc, a[1], a[2], ks)

SpecFacade == Init /\ [][NextFacade]_vars

----------------------------------------------------------------------------
\* What the claims speak of

\* The promise of the latest load() is fulfilled.
LoadCompleted == loadPromise = "resolved"

\* The latest load() was rejected by its own body for the configuration.
ConfigErrors ==
    {"error-invalid-default-module", "error-module-not-loaded",
     "error-loading-module", "error-module-not-defined"}

\* The body of the latest load() ran to its end: the opens were issued.
LoadOpened == loads > 0 /\ loadError \notin (ConfigErrors \cup {"TypeError"})

IsAlias(e) == e.name = "default" /\ e.type = "string"

\* The names under which a configuration declares a backend, in the order of
\* the map: every entry but "_" and the alias.
DeclaredNames(plugins) ==
    SelectSeq([i \in DOMAIN plugins |-> plugins[i]],
              LAMBDA e : e.name # "_" /\ ~IsAlias(e))

Declared(plugins) == {DeclaredNames(plugins)[i].name : i \in DOMAIN DeclaredNames(plugins)}

\* The names a store instance is registered under.
NamesOf(inst) == {n \in DOMAIN stores : stores[n] = inst}

\* A step that is a call of load(); one that is a call of init().
IsLoadStep == loads' = loads + 1
IsInitStep == gen' # gen

----------------------------------------------------------------------------
\* C1: once load() has completed successfully, stores has an entry "default",
\* and stores["_"] and stores["default"] are the same instance - for every
\* configuration map, the empty one included.
C1_DefaultExistsAfterLoad ==
    LoadCompleted =>
        /\ "default" \in DOMAIN stores
        /\ "_" \in DOMAIN stores
        /\ stores["_"] = stores["default"]

\* C2: after load() completes, hasConfiguredStore is true exactly when the
\* configuration declares at least one backend (an entry other than "_" and
\* other than a string alias).
C2_ConfiguredIffDeclared ==
    LoadCompleted =>
        (hasConfiguredStore <=>
            (settings.hasContextStorage /\ Declared(settings.contextStorage) # {}))

\* C3: when init was given settings without a backend configuration and load()
\* then completes, the registry holds exactly one instance, registered under
\* "default" and "_", and hasConfiguredStore is false, whatever happened before.
C3_UnconfiguredLoad ==
    (LoadCompleted /\ ~settings.hasContextStorage) =>
        /\ DOMAIN stores = {"default", "_"}
        /\ Cardinality(Range(stores)) = 1
        /\ ~hasConfiguredStore

\* C4: a load() that rejects because "default" names an entry the configuration
\* does not define has called no factory and added nothing to stores, wherever
\* "default" sits in the map.
C4_InvalidAliasRejectsFirst ==
    [][(IsLoadStep /\ loadError' = "error-invalid-default-module")
          => (stores' = stores /\ backends' = backends /\ created' = {})]_vars

\* C5: a first load() that rejects because a declared backend cannot be
\* resolved, loaded or constructed, or declares no module, leaves the registry
\* as init left it: stores holds only the placeholder "_", and
\* hasConfiguredStore is unchanged.
C5_RejectedLoadLeavesInitState ==
    [][(IsLoadStep /\ loads = 0
          /\ loadError' \in {"error-module-not-loaded", "error-loading-module",
                             "error-module-not-defined"})
          => (stores' = stores /\ DOMAIN stores' = {"_"}
                /\ hasConfiguredStore' = hasConfiguredStore)]_vars

\* The name whose backend a "default" entry designates.
DefaultTarget(plugins) ==
    IF IsAlias(Entry(plugins, "default"))
    THEN Entry(plugins, "default").arg
    ELSE "default"

\* C6: when the configuration has a "default" entry, an alias of a declared
\* backend N or a backend definition of its own, then after load() the instance
\* made for it is registered under "default" and under "_" (and under N for an
\* alias), it was made by this load, and it is no other declared backend.
C6_ConfiguredDefault ==
    (LoadCompleted /\ settings.hasContextStorage
        /\ hasOwnProperty(settings.contextStorage, "default")) =>
        LET N == DefaultTarget(settings.contextStorage)
        IN  /\ {N, "default", "_"} \subseteq DOMAIN stores
            /\ stores["default"] = stores[N]
            /\ stores["_"] = stores[N]
            /\ stores[N] \in created
            /\ NamesOf(stores[N]) = {N, "default", "_"}

C6_Witness ==
    /\ LoadCompleted
    /\ settings.hasContextStorage
    /\ hasOwnProperty(settings.contextStorage, "default")
    /\ IsAlias(Entry(settings.contextStorage, "default"))
    /\ Declared(settings.contextStorage) = {"a", "b"}
    /\ settings.contextStorage[1].name = "a"
    /\ Entry(settings.contextStorage, "default").arg = "b"

\* C7: when the configuration declares backends and has no "default" entry,
\* then after load() the first declared backend of the map is registered under
\* its name, "default" and "_", and every other declared backend under its own
\* name only.
C7_FirstIsDefault ==
    (LoadCompleted /\ settings.hasContextStorage
        /\ ~hasOwnProperty(settings.contextStorage, "default")
        /\ Declared(settings.contextStorage) # {}) =>
        LET first == DeclaredNames(settings.contextStorage)[1].name
        IN  /\ Declared(settings.contextStorage) \cup {"default", "_"}
                 \subseteq DOMAIN stores
            /\ NamesOf(stores[first]) = {first, "default", "_"}
            /\ \A M \in Declared(settings.contextStorage) \ {first} :
                  NamesOf(stores[M]) = {M}

C7_Witness ==
    /\ LoadCompleted
    /\ settings.hasContextStorage
    /\ ~hasOwnProperty(settings.contextStorage, "default")
    /\ Cardinality(Declared(settings.contextStorage)) = 2
    /\ DeclaredNames(settings.contextStorage)[1].name = "b"

\* C8: load()'s promise is not fulfilled before every open() of that load is,
\* and not fulfilled when one of them failed; each backend the load made has
\* open() invoked on it exactly once; and when load() returns, every open has
\* been issued and none has completed yet.
C8_OpensJoined ==
    /\ LoadCompleted => \A n \in DOMAIN promises : promises[n].st = "resolved"
    /\ LoadOpened =>
          \A i \in created :
              /\ Cardinality({n \in DOMAIN promises : promises[n].inst = i}) = 1
              /\ backends[i].opens = 1

C8_OpensIssuedFirst ==
    (IsLoadStep /\ loadPromise' = "pending") =>
        /\ promises' # EmptyMap
        /\ \A n \in DOMAIN promises' : promises'[n].st = "pending"
        /\ DOMAIN promises' \subseteq DOMAIN stores'

\* C8, as one property: the join of the opens in every state, and the opens
\* issued and still pending at the return of every load().
C8_LoadWaitsForOpens == [](C8_OpensJoined) /\ [][C8_OpensIssuedFirst]_vars

C8_Witness ==
    /\ LoadCompleted
    /\ Cardinality(created) = 2
    /\ Cardinality(DOMAIN promises) = 3

\* C9: after close(), every instance on which load() invoked open() has had
\* close() invoked on it exactly once, however many names it is registered
\* under.
C9_ClosedExactlyOnce ==
    closeCalled =>
        \A i \in DOMAIN backends :
            backends[i].opens > 0 => backends[i].closes = 1

\* C10: right after any call of init, contexts holds only the new global
\* Context, stores holds only "_" bound to a new memory store, and
\* hasConfiguredStore is false.
C10_InitResetsAll ==
    [][IsInitStep =>
          /\ DOMAIN contexts' = {<<"global">>}
          /\ contexts'[<<"global">>].id \notin LiveHandles(contexts)
          /\ DOMAIN stores' = {"_"}
          /\ stores'["_"] \notin Range(stores)
          /\ ~hasConfiguredStore']_vars

\* What get(l, f) must do to the cache, for C11
C11_GetStep(l, f) ==
    LET id == contextId(l, f)
    IN  IF id \in DOMAIN contexts
        THEN /\ lastHandle' = contexts[id].id
             /\ contexts' = contexts
        ELSE /\ id \in DOMAIN contexts'
             /\ contexts'[id].id = lastHandle'
             /\ lastHandle' \notin LiveHandles(contexts)
             /\ contexts'[id].global = globalHandle(contexts')
             /\ IF f = <<>>
                THEN contexts'[id].flow = 0
                ELSE f \in DOMAIN contexts' /\ contexts'[id].flow = contexts'[f].id
             /\ \A c \in DOMAIN contexts :
                    c \in DOMAIN contexts' /\ contexts'[c] = contexts[c]

\* C11: a get(localId, flowId) whose composite scope id is cached returns the
\* cached handle and leaves the cache as it is, so the handle is the same from
\* one eviction to the next; a get that finds none creates a new handle,
\* stores it under that id and links it to the flow handle, when flowId is
\* given, and to the global handle.
C11_CachedHandleStable ==
    [][\A l \in LocalIds, f \in FlowIds : getContext(l, f) => C11_GetStep(l, f)]_vars

C11_Witness ==
    /\ {<<"global">>, <<"f1">>, <<"n1", "f1">>} \subseteq DOMAIN contexts
    /\ lastHandle = contexts[<<"n1", "f1">>].id
    /\ contexts[<<"n1", "f1">>].flow = contexts[<<"f1">>].id
    /\ contexts[<<"n1", "f1">>].global = contexts[<<"global">>].id

\* C12: clean(flowConfig) removes from the cache exactly the handles, other
\* than "global", whose scope id starts with a node id that is not a key of
\* flowConfig.allNodes, keeps the others as they are, and does so whether or
\* not hasConfiguredStore is set.
C12_CleanEvictsInactive ==
    [][\A ns \in SUBSET NodeIds :
          clean(ns) =>
            /\ DOMAIN contexts' =
                  {id \in DOMAIN contexts : id = <<"global">> \/ Head(id) \in ns}
            /\ \A id \in DOMAIN contexts' : contexts'[id] = contexts[id]]_vars

C12_Witness ==
    /\ hasConfiguredStore
    /\ lastCall.op = "clean"
    /\ lastCall.nodes = {"n1"}
    /\ DOMAIN contexts = {<<"global">>, <<"n1">>, <<"n1", "f1">>}

\* C13: delete(id, flowId) with hasConfiguredStore false removes the handle
\* of the composite scope id and no other, and calls delete(compositeId) on
\* stores["_"]; with hasConfiguredStore true it changes neither the cache nor
\* any store, calls no store, and resolves.
C13_DeleteFrame ==
    [][\A c \in DeleteCalls :
          deleteContext(c[1], c[2]) =>
            IF ~hasConfiguredStore
            THEN /\ DOMAIN contexts' = DOMAIN contexts \ {contextId(c[1], c[2])}
                 /\ \A id \in DOMAIN contexts' : contexts'[id] = contexts[id]
                 /\ lastCall'.op = "delete"
                 /\ lastCall'.inst = stores["_"]
                 /\ lastCall'.scope = contextId(c[1], c[2])
            ELSE /\ contexts' = contexts
                 /\ backends' = backends
                 /\ lastCall'.inst = NoInstance
                 /\ result'.kind = "resolved"]_vars

C13_Witness ==
    /\ ~hasConfiguredStore
    /\ lastCall.op = "delete"
    /\ lastCall.inst = stores["_"]
    /\ lastCall.scope = <<"n1", "f1">>
    /\ DOMAIN contexts = {<<"global">>, <<"n1">>, <<"f1">>}

\* C14: once init has been called, the cache always holds under "global" a
\* seeded handle, whatever get, delete, clean, load and close calls follow.
C14_GlobalNeverLost ==
    settings.defined =>
        /\ <<"global">> \in DOMAIN contexts
        /\ contexts[<<"global">>].seeded

\* A step of get, set or keys of a handle
IsFacadeStep ==
    /\ lastCall'.op \in {"get", "set", "keys"}
    /\ regVars' = regVars
    /\ contexts' = contexts

\* The callback a facade call is given: the storage argument when that is a
\* function, the callback argument otherwise.
GivenCallback(call) ==
    IF IsFunction(call.storage) THEN call.storage ELSE call.callback

\* The storage name a facade call hands to getContextStorage
StorageName(call) == IF IsFunction(call.storage) THEN "default" ELSE call.storage

\* C15: get, set and keys throw "Callback must be a function" only when a
\* callback is given and is not callable; given a storage name and no
\* callback, each of them resolves the name through getContextStorage and
\* returns what the store returns.
C15_MisuseOnlyForBadCallback ==
    [][IsFacadeStep =>
          /\ (result'.kind = "throw" /\ result'.val = "Callback must be a function")
                <=> /\ GivenCallback(lastCall') # Undefined
                    /\ ~IsFunction(GivenCallback(lastCall'))
          /\ (/\ lastCall'.storage \notin {Undefined, Function}
              /\ lastCall'.callback = Undefined
              /\ "default" \in DOMAIN stores)
                => /\ result'.kind = "return"
                   /\ lastCall'.inst = getContextStorage(lastCall'.storage).inst]_vars

\* C16: getContextStorage(name) gives the store registered under name, else
\* the one registered under "default", else throws ContextError; so after a
\* successful load a facade call naming an unknown storage is served by the
\* default store, and between init and load a callback-style facade call
\* throws ContextError.
C16_StorageResolution ==
    [][(IsFacadeStep /\ IsFunction(GivenCallback(lastCall'))) =>
          LET name == StorageName(lastCall')
              thrown == result'.kind = "throw" /\ result'.val = "ContextError"
          IN  /\ name \in DOMAIN stores => lastCall'.inst = stores[name]
              /\ (name \notin DOMAIN stores /\ "default" \in DOMAIN stores) =>
                    lastCall'.inst = stores["default"]
              /\ (name \notin DOMAIN stores /\ "default" \notin DOMAIN stores) =>
                    thrown
              /\ (LoadCompleted /\ name \notin DOMAIN stores) =>
                    /\ "default" \in DOMAIN stores
                    /\ lastCall'.inst = Get(stores, "default")
              /\ (loads = 0 /\ IsFunction(lastCall'.storage)) => thrown]_vars

\* The value functionGlobalContext is configured with for key k
ConfiguredSeedValue(k) == IF k = "k1" THEN "s1" ELSE Undefined

C18_KeysAreSeedPlusStore ==
    (lastCall.op = "keys" /\ lastCall.scope = <<"global">> /\ result.kind # "throw") =>
        /\ Range(result.keys) = Range(StaticSeedKeys) \cup Range(lastCall.keys)
        /\ \A i, j \in DOMAIN result.keys : i # j => result.keys[i] # result.keys[j]

\* The join of C19 on the promises ps of the stores and the promise p of the
\* call: p is fulfilled only when every promise of ps is, and a failure among
\* ps leaves p pending or rejected.
Joined(ps, p) ==
    /\ p = "resolved" => \A n \in DOMAIN ps : ps[n].st = "resolved"
    /\ p = "rejected" => \E n \in DOMAIN ps : ps[n].st = "rejected"

\* A join that settles while a store's promise is rejected is rejected.
SettlesRejected(ps, p, q) ==
    (p = "pending" /\ q # "pending" /\ \E n \in DOMAIN ps : ps[n].st = "rejected")
        => q = "rejected"

\* close() and clean() return with one call made and one promise pending for
\* every store name, and their own promise pending.
C19_CallsIssuedFirst ==
    /\ (closeCalled' /\ ~closeCalled) =>
          /\ DOMAIN closePromises' = DOMAIN stores
          /\ \A n \in DOMAIN stores :
                /\ closePromises'[n] = [inst |-> stores[n], st |-> "pending"]
                /\ backends'[stores[n]].closes > backends[stores[n]].closes
          /\ closePromise' = "pending"
    /\ \A ns \in SUBSET {"n1"} :
          clean(ns) =>
            /\ DOMAIN cleanPromises' = DOMAIN stores
            /\ \A n \in DOMAIN stores :
                  cleanPromises'[n] = [inst |-> stores[n], st |-> "pending"]
            /\ cleanPromise' = "pending"
    /\ SettlesRejected(closePromises, closePromise, closePromise')
    /\ SettlesRejected(cleanPromises, cleanPromise, cleanPromise')

\* C19: the promise of close() is fulfilled only once the close() of every
\* registered store is, and is rejected when one of them fails; close() has
\* called them all before it waits for any; the same holds of clean() and
\* the stores' clean().
C19_CloseAndCleanJoin ==
    /\ [](Joined(closePromises, closePromise) /\ Joined(cleanPromises, cleanPromise))
    /\ [][C19_CallsIssuedFirst]_vars

C19_Witness ==
    /\ closePromise = "resolved"
    /\ Cardinality(DOMAIN closePromises) = 3
    /\ cleanPromise = "rejected"
    /\ \E n \in DOMAIN cleanPromises : cleanPromises[n].st = "resolved"

\* C20: every cached handle other than "global" has as its global the handle
\* now cached under "global", and every cached handle made with a flow id
\* has as its flow the handle now cached under that flow id.
C20_ParentLinksCurrent ==
    \A id \in DOMAIN contexts :
        id # <<"global">> =>
            /\ contexts[id].global = globalHandle(contexts)
            /\ <<"global">> \in DOMAIN contexts
            /\ Len(id) = 2 =>
                  /\ <<id[2]>> \in DOMAIN contexts
                  /\ contexts[id].flow = contexts[<<id[2]>>].id

====
